---- MODULE Spec2Model ----
(***************************************************************************)
(* Model of the local development-loop daemon (tools/watch.ts): registry   *)
(* supervision with health polling, the build -> unpublish -> publish      *)
(* pipeline, the recursive directory watcher and the debounced rebuild.    *)
(*                                                                         *)
(* Two scripts of the repository are modelled, chosen in Init:             *)
(*   "watch"  : src/tools/watch.ts lines 1-265 (watchers, rebuild)         *)
(*   "legacy" : src/unnamed/part_001 lines 1-154 (boot run only, callback  *)
(*              health check, publish() rethrows)                          *)
(*                                                                         *)
(* Node runs callbacks one at a time; execSync blocks the event loop. The  *)
(* steps of a pipeline run are separate actions, and no callback action is *)
(* enabled while a run is between two steps.                               *)
(* Paths, file names and ignore patterns are sequences of characters.      *)
(*                                                                         *)
(* Spec is the daemon, LiveSpec the daemon without interrupt signal and    *)
(* with the fairness of its timers, IgnoreSpec applies shouldIgnore to     *)
(* paths built from pieces of the ignore rules.                            *)
(***************************************************************************)
EXTENDS Integers, Sequences, FiniteSets, TLC

\* ---------------------------------------------------------------- bounds
\* accepted change events (and so timers armed) per execution
MaxEvents == 3

\* characters of a path given to shouldIgnore on its own
MaxPathLen == 9

\* ------------------------------------------------------ program constants
maxAttempts == 30

\* --------------------------------------------------------------- strings
Str_node_modules == <<"n","o","d","e","_","m","o","d","u","l","e","s">>
Str_dist == <<"d","i","s","t">>
Str_git == <<".","g","i","t">>
Str_nx == <<".","n","x">>
Str_tmp == <<"t","m","p">>
Str_angular == <<".","a","n","g","u","l","a","r">>
Str_cache == <<".","c","a","c","h","e">>
Str_spec_ts == <<"*",".","s","p","e","c",".","t","s">>
Str_spec_js == <<"*",".","s","p","e","c",".","j","s">>
Str_test_ts == <<"*",".","t","e","s","t",".","t","s">>
Str_test_js == <<"*",".","t","e","s","t",".","j","s">>
Str_DS_Store == <<".","D","S","_","S","t","o","r","e">>

IGNORED_PATTERNS ==
  << Str_node_modules, Str_dist, Str_git, Str_nx, Str_tmp, Str_angular,
     Str_cache, Str_spec_ts, Str_spec_js, Str_test_ts, Str_test_js,
     Str_DS_Store >>

\* String.prototype.includes: pat occurs in s as a contiguous substring
Includes(s, pat) ==
  \E i \in 0..(Len(s) - Len(pat)) :
     \A k \in 1..Len(pat) : s[i + k] = pat[k]

HasStar(pat) == \E i \in 1..Len(pat) : pat[i] = "*"

FirstStar(pat) == CHOOSE i \in 1..Len(pat) : pat[i] = "*" /\ \A j \in 1..(i-1) : pat[j] # "*"

\* String.prototype.replace('*', '.*'): only the first '*' is replaced
ReplaceStar(pat) ==
  LET i == FirstStar(pat)
  IN  SubSeq(pat, 1, i - 1) \o <<".", "*">> \o SubSeq(pat, i + 1, Len(pat))

\* RegExp matching of the source text re against s starting at position i
\* (1-based, i = Len(s)+1 is the end).  In the regular expression '.' matches
\* any character, 'x*' any number of x, every other character itself.
RECURSIVE RegexMatchAt(_, _, _)
RegexMatchAt(re, s, i) ==
  IF re = <<>> THEN TRUE
  ELSE LET c    == Head(re)
           star == Len(re) >= 2 /\ re[2] = "*"
           Ok(j) == j <= Len(s) /\ (c = "." \/ s[j] = c)
       IN  IF star
           THEN \E n \in 0..(Len(s) - i + 1) :
                   /\ \A j \in i..(i + n - 1) : Ok(j)
                   /\ RegexMatchAt(SubSeq(re, 3, Len(re)), s, i + n)
           ELSE Ok(i) /\ RegexMatchAt(Tail(re), s, i + 1)

\* RegExp.prototype.test without anchors: a match may start anywhere
RegexTest(re, s) == \E i \in 1..(Len(s) + 1) : RegexMatchAt(re, s, i)

PatternMatches(pattern, path) ==
  IF HasStar(pattern)
  THEN RegexTest(ReplaceStar(pattern), path)
  ELSE Includes(path, pattern)

shouldIgnore(path) ==
  \E p \in 1..Len(IGNORED_PATTERNS) : PatternMatches(IGNORED_PATTERNS[p], path)


\* ------------------------------------------------------------ file system
Str_libs == <<"l","i","b","s">>
Dir_a == <<"a">>
Dir_b == <<"b">>
Dir_c == <<"c">>
Dir_d == <<"d">>

\* a sub-directory created after the start
Dir_n == <<"n">>

\* a symbolic link in c to the directory libs: a second route to every
\* directory, and a cycle
Link_up == <<"u","p">>

\* path.join(dir, name)
join(dir, name) == dir \o <<"/">> \o name

\* process.cwd(): a plain working directory, and one below a temporary directory
WorkingDirs == { <<"/","w">>, <<"/","t","m","p">> }

\* file names reported by fs.watch: none, a source file, a test file, a
\* build output entry, and a sub-directory that was just created
FileNames ==
  { <<>>,
    <<"i",".","t","s">>,
    <<"i",".","s","p","e","c",".","t","s">>,
    Str_dist,
    Dir_n }

\* the directory tree below libs/: a, a/b, dist, c and d, listed in this
\* order, and the link c/up
ChildrenOf(root, dir) ==
  IF dir = root THEN << Dir_a, Str_dist, Dir_c, Dir_d >>
  ELSE IF dir = join(root, Dir_a) THEN << Dir_b >>
  ELSE IF dir = join(root, Dir_c) THEN << Link_up >>
  ELSE << >>

DirsOf(root) ==
  { root, join(root, Dir_a), join(join(root, Dir_a), Dir_b),
    join(root, Str_dist), join(root, Dir_c), join(root, Dir_d) }

\* entry.isDirectory() of a Dirent: false for a symbolic link, whatever it
\* points to
isDirectory(name) == name # Link_up

\* every string shouldIgnore is applied to: its results are tabulated once
KnownStrings ==
  FileNames \cup { Dir_a, Dir_b, Dir_c, Dir_d, Str_dist, Link_up }
            \cup UNION { DirsOf(join(w, Str_libs)) : w \in WorkingDirs }

IgnoreTable == [ p \in KnownStrings |-> shouldIgnore(p) ]

Ignored(p) == IgnoreTable[p]

\* no change notification was delivered yet
NoFile == << "-" >>

VARIABLES
  script,            \* which script runs: "watch" or "legacy"
  cwd,               \* process.cwd()
  pc,                \* position of the main async function
  exitCode,          \* -1 while the process runs, else the code given to exit
  exitCause,         \* what made the process exit
  verdaccioProcess,  \* "undefined", "running" or "killed" (kill() was called)
  spawnError,        \* the 'error' event the child emitted, "none" before
  registry,          \* "stopped", "starting", "ready" or "failed"
  attempts,          \* attempts counter of the health check in progress
  pings,             \* pings sent by the health check in progress
  lastAnswer,        \* answer to the last ping sent ("200", "other",
                     \* "error"), "none" before it arrives
  isRebuilding,
  rebuildTimer,      \* 0 is undefined, else the id of the last timer armed
  armed,             \* timers armed and neither fired nor cleared
  rpc,               \* position inside rebuild(): "idle" or the step running
  watchers,          \* the Set of setupFileWatchers
  installed,         \* directories with a live fs.watch handle
  walkStack,         \* suspended watchDirectory calls, innermost first
  exists,            \* directories present on disk
  steps,             \* <<step, outcome>> executed by the current or last run
  runKind,           \* "none", "boot" or "rebuild": the current or last run
  active,            \* pipeline executions in progress
  runsStarted,       \* change-triggered pipeline runs started
  events,            \* accepted change events delivered
  bursts,            \* accepted events that found no timer armed
  fired,             \* timers whose callback ran
  superseded,        \* timers still armed when a later event arrived
  published,         \* registry contents: "none", "stale" or "fresh"
  lastFile,          \* file name of the last change notification, NoFile before
  candidate,         \* a path given to shouldIgnore
  ignored            \* what shouldIgnore returned for candidate

vars ==
  << script, cwd, pc, exitCode, exitCause, verdaccioProcess, spawnError,
     registry, attempts, pings, isRebuilding, rebuildTimer, armed, rpc,
     watchers, installed, walkStack, exists, steps, runKind, active,
     runsStarted, events, bursts, fired, superseded, published,
     lastAnswer, lastFile, candidate, ignored >>

\* what no step of the daemon changes
envVars == << script, cwd, candidate, ignored >>
procVars == << verdaccioProcess, spawnError >>
healthVars == << registry, attempts, pings, lastAnswer >>
timerVars == << rebuildTimer, armed, events, bursts, fired, superseded, lastFile >>
walkVars == << watchers, installed, walkStack >>
runVars == << steps, runKind, active, published >>
rebuildVars == << isRebuilding, rpc, runsStarted >>

Root == join(cwd, Str_libs)

Children(dir) == ChildrenOf(Root, dir)

AllDirs == DirsOf(Root)

IsPrefix(p, d) == Len(p) <= Len(d) /\ SubSeq(d, 1, Len(p)) = p

\* readdir(dir, {withFileTypes: true}): the sub-directories present, and
\* the links
Listing(dir) ==
  SelectSeq(Children(dir), LAMBDA n : n = Link_up \/ join(dir, n) \in exists)

\* (mutant) the path is not recorded
SetAddOmitted(ws, dir) == ws

\* watchers.add(dir)
SetAdd(ws, dir) == ws \cup { dir }

\* --------------------------------------------------------------- event loop
Alive == pc # "exited"

\* positions at which the main function is suspended in an await
AwaitPoints == { "sleep", "ping", "walk", "blocked" }

\* (mutant) the steps of rebuild() do not block the event loop
EventLoopFreeAsync == Alive /\ pc \in AwaitPoints

\* (mutant) callbacks are still dispatched after process.exit
EventLoopFreeAfterExit == pc \in AwaitPoints \cup { "exited" } /\ rpc = "idle"

\* a callback can be dispatched: the process runs, the main function awaits
\* and no execSync of a rebuild blocks the loop
EventLoopFree == Alive /\ pc \in AwaitPoints /\ rpc = "idle"

\* (mutant) the child process is not signalled
killChildProcessesNoop(proc) == proc

\* verdaccioProcess?.kill()
killChildProcesses(proc) == IF proc = "undefined" THEN proc ELSE "killed"

\* the process ends with code, because of cause
Exit(code, cause) ==
  /\ pc' = "exited"
  /\ exitCode' = code
  /\ exitCause' = cause
  /\ registry' = IF cause \in { "health", "spawn" } THEN "failed" ELSE "stopped"

\* the catch block of startWatchMode / watch
Fatal(cause) ==
  /\ verdaccioProcess' = killChildProcesses(verdaccioProcess)
  /\ Exit(1, cause)

Init ==
  /\ script \in { "watch", "legacy" }
  /\ cwd \in WorkingDirs
  /\ pc = "init"
  /\ exitCode = -1
  /\ exitCause = "none"
  /\ verdaccioProcess = "undefined"
  /\ spawnError = "none"
  /\ registry = "stopped"
  /\ attempts = 0
  /\ pings = 0
  /\ isRebuilding = FALSE
  /\ rebuildTimer = 0
  /\ armed = {}
  /\ rpc = "idle"
  /\ watchers = {}
  /\ installed = {}
  /\ walkStack = << >>
  /\ exists = AllDirs
  /\ steps = << >>
  /\ runKind = "none"
  /\ active = 0
  /\ runsStarted = 0
  /\ events = 0
  /\ bursts = 0
  /\ fired = {}
  /\ superseded = {}
  /\ published = "none"
  /\ lastAnswer = "none"
  /\ lastFile = NoFile
  /\ candidate = << >>
  /\ ignored = shouldIgnore(candidate)


\* ----------------------------------------------------------------- pipeline
\* outcomes of an execSync call: exit 0, a non-zero exit, the timeout; the
\* publish command can also fail with the "cannot publish over" message
Outcomes(step) ==
  IF step = "publish"
  THEN { "ok", "fail", "benign", "timeout" }
  ELSE { "ok", "fail", "timeout" }

\* (mutant) the build error is logged and swallowed
buildLibrariesSwallow(o) == "return"

\* (mutant) a build that ran into its timeout is taken as built
buildLibrariesTimeoutOk(o) == IF o \in { "ok", "timeout" } THEN "return" ELSE "throw"

\* buildLibraries (watch.ts) and buildLibs (part_001): log and rethrow
buildLibraries(o) == IF o = "ok" THEN "return" ELSE "throw"

\* (mutant) the unpublish error is rethrown
cleanRegistryRethrow(o) == IF o = "ok" THEN "return" ELSE "throw"

\* cleanRegistry (watch.ts) and unpublish (part_001): every error is swallowed
cleanRegistry(o) == "return"

\* publishPackages (watch.ts): every error is swallowed, with or without the
\* "cannot publish over" message
publishPackages(o) == "return"

\* publish (part_001): log and rethrow
publish(o) == IF o = "ok" THEN "return" ELSE "throw"

\* how the call of a step ends in the script that runs
StepResult(step, o) ==
  CASE step = "build"   -> buildLibraries(o)
    [] step = "clean"   -> cleanRegistry(o)
    [] step = "publish" -> IF script = "watch" THEN publishPackages(o) ELSE publish(o)

\* the order of the calls in rebuild and in startWatchMode / watch
FirstStep == "build"

\* (mutant) publish is called before unpublish
StepAfterSwapped(step) ==
  CASE step = "build"   -> "publish"
    [] step = "publish" -> "clean"
    [] step = "clean"   -> "end"

\* (mutant) the run ends after unpublish
StepAfterNoPublish(step) ==
  CASE step = "build"   -> "clean"
    [] step = "clean"   -> "end"
    [] step = "publish" -> "end"

StepAfter(step) ==
  CASE step = "build"   -> "clean"
    [] step = "clean"   -> "publish"
    [] step = "publish" -> "end"

Steps == { "build", "clean", "publish" }

\* the registry contents after a step that ran with outcome o
Registry(step, o, reg) ==
  CASE step = "build"   -> IF o = "ok" /\ reg = "fresh" THEN "stale" ELSE reg
    [] step = "clean"   -> IF o = "ok" THEN "none" ELSE reg
    [] step = "publish" -> IF o = "ok" THEN "fresh" ELSE reg

\* --------------------------------------------------------- registry start
\* startWatchMode up to the first await of startVerdaccio (watch.ts): spawn,
\* register the error handler, enter the loop, attempts++, sleep one second
startVerdaccio ==
  /\ script = "watch"
  /\ pc = "init"
  /\ verdaccioProcess' = "running"
  /\ registry' = "starting"
  /\ attempts' = 1
  /\ pc' = "sleep"
  /\ UNCHANGED << envVars, exitCode, exitCause, spawnError, pings, lastAnswer,
                  timerVars, walkVars, runVars, rebuildVars, exists >>

\* the one-second sleep of the loop ends: the ping is sent
PingSent ==
  /\ script = "watch"
  /\ pc = "sleep"
  /\ pings' = pings + 1
  /\ lastAnswer' = "none"
  /\ pc' = "ping"
  /\ UNCHANGED << envVars, exitCode, exitCause, procVars, registry, attempts,
                  timerVars, walkVars, runVars, rebuildVars, exists >>

\* (mutant) while (attempts <= maxAttempts)
LoopContinuesInclusive(n) == n <= maxAttempts

\* while (attempts < maxAttempts)
LoopContinues(n) == n < maxAttempts

\* (mutant) startVerdaccio returns when the loop ends without a 200
LoopExhaustedReturn == "return"

\* what startVerdaccio does when the loop ends without a 200
LoopExhausted == "throw"

\* startVerdaccio has returned: its counters leave scope and the boot run
\* starts with its first step
BootRunStarts ==
  /\ pc' = FirstStep
  /\ attempts' = 0
  /\ pings' = 0
  /\ runKind' = "boot"
  /\ steps' = << >>
  /\ active' = active + 1
  /\ published' = published
  /\ UNCHANGED << exitCode, exitCause, verdaccioProcess >>

\* the ping is answered (status 200, another status, a connection error)
PingAnswer(r) ==
  /\ script = "watch"
  /\ pc = "ping"
  /\ lastAnswer' = r
  /\ IF r = "200"
     THEN /\ registry' = "ready"
          /\ BootRunStarts
     ELSE IF LoopContinues(attempts)
     THEN /\ attempts' = attempts + 1
          /\ pc' = "sleep"
          /\ UNCHANGED << exitCode, exitCause, verdaccioProcess, registry,
                          pings, runVars >>
     ELSE IF LoopExhausted = "throw"
     THEN /\ Fatal("health")
          /\ UNCHANGED << attempts, pings, runVars >>
     ELSE /\ registry' = "failed"
          /\ BootRunStarts
  /\ UNCHANGED << envVars, spawnError, timerVars, walkVars, rebuildVars, exists >>

\* watch() up to the first await (part_001): spawn, register the error
\* handler, waitForVerdaccio arms its first timer
waitForVerdaccio ==
  /\ script = "legacy"
  /\ pc = "init"
  /\ verdaccioProcess' = "running"
  /\ registry' = "starting"
  /\ attempts' = 0
  /\ pc' = "sleep"
  /\ UNCHANGED << envVars, exitCode, exitCause, spawnError, pings, lastAnswer,
                  timerVars, walkVars, runVars, rebuildVars, exists >>

\* checkHealth (part_001): attempts++ and the ping is sent
checkHealth ==
  /\ script = "legacy"
  /\ pc = "sleep"
  /\ attempts' = attempts + 1
  /\ pings' = pings + 1
  /\ lastAnswer' = "none"
  /\ pc' = "ping"
  /\ UNCHANGED << envVars, exitCode, exitCause, procVars, registry,
                  timerVars, walkVars, runVars, rebuildVars, exists >>

\* retry (part_001): if (attempts >= maxAttempts) reject
RetryExhausted(n) == n >= maxAttempts

\* the response and error callbacks of checkHealth (part_001)
HealthAnswer(r) ==
  /\ script = "legacy"
  /\ pc = "ping"
  /\ lastAnswer' = r
  /\ IF r = "200"
     THEN /\ registry' = "ready"
          /\ BootRunStarts
     ELSE IF RetryExhausted(attempts)
     THEN /\ Fatal("health")
          /\ UNCHANGED << attempts, pings, runVars >>
     ELSE /\ pc' = "sleep"
          /\ UNCHANGED << exitCode, exitCause, verdaccioProcess, registry,
                          attempts, pings, runVars >>
  /\ UNCHANGED << envVars, spawnError, timerVars, walkVars, rebuildVars, exists >>

\* ------------------------------------------------------------ the boot run
\* one execSync step of the boot run (startWatchMode / watch); the event
\* loop is blocked from the first step to the end of the last one
BootStep(o) ==
  /\ pc \in Steps
  /\ o \in Outcomes(pc)
  /\ steps' = Append(steps, << pc, o >>)
  /\ published' = Registry(pc, o, published)
  /\ runKind' = runKind
  /\ IF StepResult(pc, o) = "throw"
     THEN /\ Fatal(pc)
          /\ active' = active - 1
     ELSE /\ IF StepAfter(pc) = "end"
             THEN /\ pc' = IF script = "watch" THEN "setup" ELSE "blocked"
                  /\ active' = active - 1
             ELSE /\ pc' = StepAfter(pc)
                  /\ active' = active
          /\ UNCHANGED << exitCode, exitCause, verdaccioProcess, registry >>
  /\ UNCHANGED << envVars, spawnError, attempts, pings, lastAnswer, timerVars, walkVars,
                  rebuildVars, exists >>

\* ------------------------------------------------------ recursive watcher
\* watchDirectory resumed in the innermost suspended call, whose listing is
\* known, up to the next readdir it awaits: entries are taken in order, an
\* ignored name or an ignored or known path is passed over, a path is added
\* to the Set before watch() is called, and a watch() that throws is caught
\* by the try block of the call that awaits it, which ends that call.
RECURSIVE Resume(_, _, _)
Resume(stack, ws, inst) ==
  IF stack = << >>
  THEN [ stack |-> stack, watchers |-> ws, installed |-> inst ]
  ELSE LET f == Head(stack)
       IN  IF f.rest = << >>
           THEN Resume(Tail(stack), ws, inst)
           ELSE LET n     == Head(f.rest)
                    child == join(f.dir, n)
                    next  == << [ f EXCEPT !.rest = Tail(f.rest) ] >> \o Tail(stack)
                IN  IF \/ ~isDirectory(n) \/ Ignored(n)
                       \/ child \in ws \/ Ignored(child)
                    THEN Resume(next, ws, inst)
                    ELSE IF child \notin exists
                    THEN Resume(Tail(stack), SetAdd(ws, child), inst)
                    ELSE [ stack     |-> << [ dir |-> child, rest |-> << >> ] >> \o next,
                           watchers  |-> SetAdd(ws, child),
                           installed |-> inst \cup { child } ]

\* setupFileWatchers([libs]) up to its first await: watchDirectory(root)
setupFileWatchers ==
  /\ pc = "setup"
  /\ IF Root \in watchers \/ Ignored(Root)
     THEN /\ pc' = "blocked"
          /\ UNCHANGED << exitCode, exitCause, verdaccioProcess, registry, walkVars >>
     ELSE /\ watchers' = SetAdd(watchers, Root)
          /\ IF Root \notin exists
             THEN /\ Fatal("watch")
                  /\ UNCHANGED << installed, walkStack >>
             ELSE /\ installed' = installed \cup { Root }
                  /\ walkStack' = << [ dir |-> Root, rest |-> << >> ] >>
                  /\ pc' = "walk"
                  /\ UNCHANGED << exitCode, exitCause, verdaccioProcess, registry >>
  /\ UNCHANGED << envVars, spawnError, attempts, pings, lastAnswer, timerVars, runVars,
                  rebuildVars, exists >>

\* the readdir awaited by the innermost watchDirectory call settles: with the
\* listing, or with an error (caught and logged) when the directory is gone
ReaddirDone ==
  /\ pc = "walk"
  /\ EventLoopFree
  /\ LET f       == Head(walkStack)
         entries == IF f.dir \in exists THEN Listing(f.dir) ELSE << >>
         r       == Resume(<< [ f EXCEPT !.rest = entries ] >> \o Tail(walkStack),
                           watchers, installed)
     IN  /\ walkStack' = r.stack
         /\ watchers' = r.watchers
         /\ installed' = r.installed
         /\ pc' = IF r.stack = << >> THEN "blocked" ELSE "walk"
  /\ UNCHANGED << envVars, exitCode, exitCause, procVars, healthVars,
                  timerVars, runVars, rebuildVars, exists >>

\* a directory and everything below it is removed, just before the walk or
\* during it (the directories are not read before, nor afterwards); one
\* removal per execution
Vanish(d) ==
  /\ pc \in { "setup", "walk" }
  /\ exists = AllDirs
  /\ d \in exists
  /\ exists' = { e \in exists : ~IsPrefix(d, e) }
  /\ UNCHANGED << envVars, pc, exitCode, exitCause, procVars, healthVars,
                  timerVars, walkVars, runVars, rebuildVars >>

\* ---------------------------------------------------------------- debounce
\* (mutant) the timer held is not cleared
debounceNoClear(timer, pending, id) ==
  [ rebuildTimer |-> id, armed |-> pending \cup { id } ]

\* (mutant) the id of the new timer is not stored in rebuildTimer
debounceNoStore(timer, pending, id) ==
  [ rebuildTimer |-> timer,
    armed        |-> (IF timer # 0 THEN pending \ { timer } ELSE pending) \cup { id } ]

\* debounce(func, delay): clearTimeout of the timer held, if any, then a new
\* timer id is stored in rebuildTimer
debounce(timer, pending, id) ==
  [ rebuildTimer |-> id,
    armed        |-> (IF timer # 0 THEN pending \ { timer } ELSE pending) \cup { id } ]

\* (mutant) only a notification without a file name is discarded
DiscardedWhenEmpty(filename) == filename = << >>

\* if (!filename || shouldIgnore(filename)) return
Discarded(filename) == filename = << >> \/ Ignored(filename)

\* the watch callback of a watched directory: (eventType, filename)
\* (mutant) the callback watches a directory it is told about
WatchedAfterEventAdds(inst, dir, filename) ==
  IF filename = Dir_n THEN inst \cup { join(dir, filename) } ELSE inst

\* the watchers after the callback of fs.watch ran: the callback calls
\* neither watch() nor watchDirectory()
WatchedAfterEvent(inst, dir, filename) == inst

\* the directories a change can happen in: the tree and the sub-directory
\* created after the start
EventDirs == AllDirs \cup { join(Root, Dir_n) }

WatchEvent(dir, filename) ==
  /\ EventLoopFree
  /\ dir \in installed
  /\ filename \in FileNames
  /\ lastFile' = filename
  /\ installed' = WatchedAfterEvent(installed, dir, filename)
  /\ IF Discarded(filename)
     THEN UNCHANGED << rebuildTimer, armed, events, bursts, fired, superseded >>
     ELSE /\ events < MaxEvents
          /\ LET d == debounce(rebuildTimer, armed, events + 1)
             IN  /\ rebuildTimer' = d.rebuildTimer
                 /\ armed' = d.armed
          /\ events' = events + 1
          /\ bursts' = IF armed = {} THEN bursts + 1 ELSE bursts
          /\ superseded' = superseded \cup armed
          /\ fired' = fired
  /\ UNCHANGED << envVars, pc, exitCode, exitCause, procVars, healthVars,
                  watchers, walkStack, runVars, rebuildVars, exists >>

\* ----------------------------------------------------------------- rebuild
\* the guard of the debounced action and the guard of rebuild()
\* (mutant) the guard is inverted
RebuildGuardInverted(busy) == busy

RebuildGuard(busy) == ~busy

\* timer t fires: the debounced action runs, and rebuild() up to its first
\* execSync
TimerFire(t) ==
  /\ EventLoopFree
  /\ t \in armed
  /\ armed' = armed \ { t }
  /\ fired' = fired \cup { t }
  /\ IF RebuildGuard(isRebuilding)
     THEN /\ isRebuilding' = TRUE
          /\ rpc' = FirstStep
          /\ runsStarted' = runsStarted + 1
          /\ runKind' = "rebuild"
          /\ steps' = << >>
          /\ active' = active + 1
          /\ published' = published
     ELSE UNCHANGED << rebuildVars, runVars >>
  /\ UNCHANGED << envVars, pc, exitCode, exitCause, procVars, healthVars,
                  rebuildTimer, events, bursts, superseded, lastFile, walkVars,
                  exists >>

\* (mutant) the flag is reset at the end of the try block only
FinallyOnSuccess(how, busy) == IF how = "completed" THEN FALSE ELSE busy

\* (mutant) the flag is never reset
FinallyMissing(how, busy) == busy

\* the finally block of rebuild(): how is "completed" or "caught"
Finally(how, busy) == FALSE

\* (mutant) the run resets the timer handle when it ends
TimerAfterRunReset(timer) == 0

\* the timer handle after rebuild() ran: no statement of rebuild(), of its
\* catch block or of its finally block reads or writes rebuildTimer
TimerAfterRun(timer) == timer

\* one execSync step of rebuild(), and after the last step or a throw the
\* catch and finally blocks
RebuildStep(o) ==
  /\ Alive
  /\ rpc \in Steps
  /\ o \in Outcomes(rpc)
  /\ rebuildTimer' = IF StepResult(rpc, o) = "throw" \/ StepAfter(rpc) = "end"
                     THEN TimerAfterRun(rebuildTimer)
                     ELSE rebuildTimer
  /\ steps' = Append(steps, << rpc, o >>)
  /\ published' = Registry(rpc, o, published)
  /\ runKind' = runKind
  /\ IF StepResult(rpc, o) = "throw"
     THEN /\ rpc' = "idle"
          /\ isRebuilding' = Finally("caught", isRebuilding)
          /\ active' = active - 1
     ELSE IF StepAfter(rpc) = "end"
     THEN /\ rpc' = "idle"
          /\ isRebuilding' = Finally("completed", isRebuilding)
          /\ active' = active - 1
     ELSE /\ rpc' = StepAfter(rpc)
          /\ isRebuilding' = isRebuilding
          /\ active' = active
  /\ UNCHANGED << envVars, pc, exitCode, exitCause, procVars, healthVars,
                  armed, events, bursts, fired, superseded, lastFile,
                  walkVars, runsStarted, exists >>

\* ------------------------------------------------------- signals and errors
\* the SIGINT handler
Sigint ==
  /\ EventLoopFree
  /\ verdaccioProcess' = killChildProcesses(verdaccioProcess)
  /\ Exit(0, "sigint")
  /\ UNCHANGED << envVars, spawnError, attempts, pings, lastAnswer, timerVars, walkVars,
                  runVars, rebuildVars, exists >>

\* (mutant) every spawn error is rethrown
IsFatalSpawnErrorAlways(m) == TRUE

\* (mutant) no spawn error is rethrown
IsFatalSpawnErrorNever(m) == FALSE

\* if (!error.message.includes('EADDRINUSE')) throw / reject
IsFatalSpawnError(m) == m # "EADDRINUSE"

\* the 'error' event of the registry child process, emitted once the spawn
\* has failed, with a message that contains EADDRINUSE or another one.
\* watch.ts throws from the listener (an uncaught exception: the process ends
\* with code 1 and no handler runs); part_001 rejects the promise of
\* startVerdaccio, which the catch block of watch() handles.
SpawnError(m) ==
  /\ pc \in { "sleep", "ping" }
  /\ spawnError = "none"
  /\ spawnError' = m
  /\ IF ~IsFatalSpawnError(m)
     THEN UNCHANGED << pc, exitCode, exitCause, verdaccioProcess, registry >>
     ELSE IF script = "watch"
     THEN /\ Exit(1, "spawn")
          /\ UNCHANGED verdaccioProcess
     ELSE Fatal("spawn")
  /\ UNCHANGED << envVars, attempts, pings, lastAnswer, timerVars, walkVars, runVars,
                  rebuildVars, exists >>

\* ------------------------------------------------------------ specification
Next ==
  \/ startVerdaccio
  \/ PingSent
  \/ \E r \in { "200", "other", "error" } : PingAnswer(r)
  \/ waitForVerdaccio
  \/ checkHealth
  \/ \E r \in { "200", "other", "error" } : HealthAnswer(r)
  \/ \E o \in Outcomes("publish") : BootStep(o)
  \/ setupFileWatchers
  \/ ReaddirDone
  \/ \E d \in AllDirs : Vanish(d)
  \/ \E d \in EventDirs, f \in FileNames : WatchEvent(d, f)
  \/ \E t \in 1..MaxEvents : TimerFire(t)
  \/ \E o \in Outcomes("publish") : RebuildStep(o)
  \/ Sigint
  \/ \E m \in { "EADDRINUSE", "other" } : SpawnError(m)

Spec == Init /\ [][Next]_vars


\* the daemon absent shutdown: no interrupt signal is delivered, and the
\* directory tree stays as it is while the watchers are set up.  A timer that
\* stays armed fires, and a step of a run ends (every execSync has a timeout).
NextNoSignal ==
  \/ startVerdaccio
  \/ PingSent
  \/ \E r \in { "200", "other", "error" } : PingAnswer(r)
  \/ waitForVerdaccio
  \/ checkHealth
  \/ \E r \in { "200", "other", "error" } : HealthAnswer(r)
  \/ \E o \in Outcomes("publish") : BootStep(o)
  \/ setupFileWatchers
  \/ ReaddirDone
  \/ \E d \in EventDirs, f \in FileNames : WatchEvent(d, f)
  \/ \E t \in 1..MaxEvents : TimerFire(t)
  \/ \E o \in Outcomes("publish") : RebuildStep(o)
  \/ \E m \in { "EADDRINUSE", "other" } : SpawnError(m)

\* The timers of the health check fire as well; whether a ping is answered
\* is up to the endpoint (the request has no timeout), so no fairness is
\* stated for the answers.
LiveSpec ==
  /\ Init
  /\ [][NextNoSignal]_vars
  /\ WF_vars(startVerdaccio)
  /\ WF_vars(PingSent)
  /\ WF_vars(waitForVerdaccio)
  /\ WF_vars(checkHealth)
  /\ \A t \in 1..MaxEvents : WF_vars(TimerFire(t))
  /\ WF_vars(\E o \in Outcomes("publish") : RebuildStep(o))

\* ------------------------------------------------- shouldIgnore on its own
\* paths are built from pieces that make the rules match or nearly match: a
\* literal rule (dist), the parts of a wildcard rule (. spec ts) and letters
Pieces ==
  { << "a" >>, << "x" >>, << "." >>, << "t", "s" >>,
    << "s", "p", "e", "c" >>, Str_dist }

InitIgnore ==
  /\ Init
  /\ script = "watch"
  /\ cwd = << "/", "w" >>

\* shouldIgnore is applied to the candidate with one more piece
AppendPiece(p) ==
  /\ Len(candidate) + Len(p) <= MaxPathLen
  /\ candidate' = candidate \o p
  /\ ignored' = shouldIgnore(candidate')
  /\ UNCHANGED << script, cwd, pc, exitCode, exitCause, procVars, healthVars,
                  timerVars, walkVars, runVars, rebuildVars, exists >>

NextIgnore == \E p \in Pieces : AppendPiece(p)

IgnoreSpec == InitIgnore /\ [][NextIgnore]_vars

\* ------------------------------------------------------------------ claims
StepSeq == << "build", "clean", "publish" >>

\* some step of the current or last run did not exit with 0
RunFailed == \E i \in 1..Len(steps) : steps[i][2] # "ok"

\* C1: at most one pipeline execution is active, the boot run included; and
\* while one is active (between two of its steps) no file-change callback
\* arms a timer, no timer fires and no second run starts.
C1_SingleFlight ==
  [][ /\ active' <= 1
      /\ ~(pc' \in Steps /\ rpc' # "idle")
      /\ (active > 0 /\ active' > 0 =>
            /\ armed' = armed
            /\ fired' = fired
            /\ runsStarted' = runsStarted
            /\ runKind' = runKind) ]_vars

C1_Witness ==
  /\ runKind = "rebuild" /\ rpc = "publish" /\ active = 1 /\ runsStarted = 2

\* C2: a burst of accepted events, each arriving before the timer of the
\* previous one fired, gives exactly one pipeline run, started by the timer of
\* the last event: a timer that a later event found armed never fires, every
\* fired timer started a run, and every burst has its run or its armed timer.
C2_DebounceCollapses ==
  /\ Cardinality(armed) <= 1
  /\ fired \cap superseded = {}
  /\ runsStarted = Cardinality(fired)
  /\ bursts = runsStarted + Cardinality(armed)

C2_Witness ==
  /\ events = 3 /\ bursts = 1 /\ runsStarted = 1
  /\ superseded = { 1, 2 } /\ fired = { 3 }

\* C3: in every run the steps are build, unpublish, publish in this order,
\* none twice; unpublish starts only after a successful build and publish
\* only after unpublish has ended.
C3_StepOrder ==
  /\ Len(steps) <= Len(StepSeq)
  /\ \A i \in 1..Len(steps) : steps[i][1] = StepSeq[i]
  /\ (Len(steps) >= 2 => steps[1][2] = "ok")
  /\ (pc \in Steps => runKind = "boot" /\ pc = StepSeq[Len(steps) + 1])
  /\ (rpc \in Steps => runKind = "rebuild" /\ rpc = StepSeq[Len(steps) + 1])

C3_Witness ==
  /\ runKind = "rebuild" /\ rpc = "idle" /\ Len(steps) = 3 /\ runsStarted = 1

\* C4: a build failure in a change-triggered run ends the run at once, with
\* no unpublish and no publish, the registry contents as before, and the
\* daemon running.
C4_BuildFailureAborts ==
  /\ [](runKind = "rebuild" /\ Len(steps) >= 1 /\ steps[1][2] # "ok"
          => Len(steps) = 1 /\ rpc = "idle")
  /\ [][ rpc = "build" /\ Len(steps') = 1 /\ steps'[1][2] # "ok"
          => /\ rpc' = "idle"
             /\ published' = published
             /\ pc' # "exited"
             /\ pc' = pc
             /\ active' = 0 ]_vars

C4_Witness ==
  /\ runKind = "rebuild" /\ rpc = "idle" /\ Alive
  /\ steps = << << "build", "fail" >> >> /\ published = "fresh"

\* C5: when build succeeded, publish is attempted after unpublish whatever
\* the outcome of unpublish, and the process is still running then.
C5_UnpublishNeverAborts ==
  /\ (Len(steps) = 1 /\ steps[1][2] = "ok" =>
        IF runKind = "boot" THEN pc = "clean" ELSE rpc = "clean")
  /\ (Len(steps) = 2 =>
        /\ steps[2][1] = "clean"
        /\ IF runKind = "boot" THEN pc = "publish" ELSE rpc = "publish")
  /\ (Len(steps) = 3 => steps[3][1] = "publish")
  /\ exitCause # "clean"

C5_Witness ==
  /\ runKind = "rebuild" /\ Len(steps) = 3
  /\ steps[2] = << "clean", "timeout" >> /\ Alive

\* C6: a publish failure, benign or not, never ends the process: a
\* change-triggered run completes and the flag is reset, and the boot
\* sequence goes on.
C6_PublishFailureNeverFatal ==
  [][ Len(steps) = 2 /\ Len(steps') = 3 /\ steps'[3][2] # "ok"
        => /\ pc' # "exited"
           /\ (rpc = "publish" => rpc' = "idle" /\ ~isRebuilding')
           /\ (pc = "publish" => pc' \in { "setup", "blocked" }) ]_vars

\* C7: the flag is set exactly while a change-triggered run executes: it is
\* reset when the run ends, whatever the outcomes of its steps.
C7_FlagResetOnEveryExit ==
  isRebuilding <=> rpc # "idle"

C7_Witness ==
  /\ runKind = "rebuild" /\ rpc = "idle" /\ ~isRebuilding
  /\ steps = << << "build", "timeout" >> >>

\* C8: after a change-triggered run that failed, an accepted change event
\* (its timer is armed) is eventually followed by a new run that starts with
\* the build step.
C8_FailureDoesNotWedge ==
  (runKind = "rebuild" /\ rpc = "idle" /\ RunFailed /\ armed # {})
     ~> (rpc = "build" /\ steps = << >> /\ isRebuilding)

C8_Witness ==
  /\ runKind = "rebuild" /\ rpc = "idle" /\ ~isRebuilding /\ armed = { 2 }
  /\ steps = << << "build", "ok" >>, << "clean", "fail" >>, << "publish", "fail" >> >>

\* C9: the process ends with a failure code only when the registry health
\* check is exhausted or the registry spawn fails with another error than
\* address-in-use; no step failure of any run ends it.
C9_OnlyRegistryFailuresAreFatal ==
  exitCode = 1 => exitCause \in { "health", "spawn" }

\* C10: when no ping of the maxAttempts pings was answered with 200 the
\* registry start fails, the process ends with code 1, and no pipeline step
\* has run and no watcher is installed; the start fails this way only after
\* maxAttempts pings.
C10_HealthCheckBound ==
  /\ (exitCause = "health" => pings = maxAttempts /\ attempts = maxAttempts)
  /\ (registry = "failed" =>
        /\ pc = "exited" /\ exitCode = 1
        /\ runKind = "none" /\ steps = << >> /\ active = 0
        /\ watchers = {} /\ installed = {})

C10_Witness ==
  /\ exitCause = "health" /\ registry = "failed" /\ pings = maxAttempts
  /\ script = "watch"

\* C11: a spawn error whose message contains EADDRINUSE does not abort the
\* start.  The error event itself changes nothing, the process never exits
\* because of it, the health check goes on (a ping not answered with 200 is
\* followed by the next sleep while the budget lasts), and a ping answered
\* with 200 makes the registry ready and starts the boot run at build.
C11_AddressInUseTolerated ==
  [][ spawnError' = "EADDRINUSE" =>
        /\ exitCause' # "spawn"
        /\ (spawnError = "none" =>
              /\ pc' = pc /\ exitCode' = exitCode
              /\ registry' = registry /\ verdaccioProcess' = verdaccioProcess
              /\ attempts' = attempts /\ pings' = pings)
        /\ (pc = "ping" /\ lastAnswer' = "200" =>
              registry' = "ready" /\ pc' = "build" /\ runKind' = "boot")
        /\ (pc = "ping" /\ lastAnswer' \in { "other", "error" }
               /\ pings < maxAttempts =>
              registry' = "starting" /\ pc' = "sleep") ]_vars

\* after the address-in-use error the boot run ended and a watcher is installed
C11_Witness ==
  /\ spawnError = "EADDRINUSE" /\ registry = "ready" /\ pc = "blocked"
  /\ runKind = "boot" /\ Len(steps) = 3 /\ Root \in installed

\* C12: wherever the interrupt handler can run (health check asleep or
\* waiting for an answer, watchers being installed, watching, with or without
\* an armed timer) it signals the registry child process if one was spawned
\* and ends the process with code 0; with no child process there is nothing
\* to signal and the call is harmless.
C12_InterruptStopsCleanly ==
  /\ killChildProcesses("undefined") = "undefined"
  /\ [](Alive /\ pc \in { "sleep", "ping", "walk", "blocked" } /\ rpc = "idle"
          => ENABLED Sigint)
  /\ [](exitCause = "sigint" =>
          pc = "exited" /\ exitCode = 0 /\ verdaccioProcess # "running")
  /\ [][ exitCause # "sigint" /\ exitCause' = "sigint" =>
          /\ Alive /\ pc' = "exited" /\ exitCode' = 0
          /\ verdaccioProcess' =
               (IF verdaccioProcess = "undefined" THEN "undefined" ELSE "killed")
          /\ armed' = armed /\ isRebuilding' = isRebuilding ]_vars

\* the interrupt arrived while watching with a timer armed
C12_Witness ==
  /\ exitCause = "sigint" /\ exitCode = 0 /\ verdaccioProcess = "killed"
  /\ armed # {} /\ installed # {} /\ runsStarted = 1

\* C13: the boot run starts only when a ping was answered with 200 (the
\* registry is ready), and the watchers are set up only after the boot run
\* executed build, unpublish and publish: before that no directory is in the
\* Set, no watcher is installed and no change notification is delivered.
C13_BootOrder ==
  /\ [](runKind # "none" \/ pc \in Steps => lastAnswer = "200")
  /\ [](pc \in Steps => registry = "ready" /\ runKind = "boot")
  /\ []((\/ pc \in { "setup", "walk", "blocked" }
          \/ watchers # {} \/ installed # {}
          \/ events > 0 \/ lastFile # NoFile)
         => /\ pc \notin Steps
            /\ runKind \in { "boot", "rebuild" }
            /\ (runKind = "boot" =>
                  Len(steps) = 3 /\ steps[3][1] = "publish"))
  /\ [][ pc \notin Steps /\ pc' \in Steps =>
          pc = "ping" /\ pc' = "build" /\ registry' = "ready" ]_vars

\* a change event is accepted after the boot run and the watcher set-up
C13_Witness ==
  /\ script = "watch" /\ pc = "blocked" /\ runKind = "boot" /\ Len(steps) = 3
  /\ Cardinality(installed) = 3 /\ events = 1 /\ armed = { 1 }

\* a single-wildcard glob: '*' stands for any characters and every other
\* character for itself, so p starts with what precedes the '*' and ends
\* with what follows it
GlobMatches(pattern, p) ==
  LET i   == FirstStar(pattern)
      pre == SubSeq(pattern, 1, i - 1)
      suf == SubSeq(pattern, i + 1, Len(pattern))
  IN  /\ Len(p) >= Len(pre) + Len(suf)
      /\ SubSeq(p, 1, Len(pre)) = pre
      /\ SubSeq(p, Len(p) - Len(suf) + 1, Len(p)) = suf

\* p contains a literal rule or matches a wildcard rule
RuleMatches(p) ==
  \E k \in 1..Len(IGNORED_PATTERNS) :
     IF HasStar(IGNORED_PATTERNS[k])
     THEN GlobMatches(IGNORED_PATTERNS[k], p)
     ELSE Includes(p, IGNORED_PATTERNS[k])

\* C14: shouldIgnore(path) is true when the path contains a literal rule or
\* matches a single-wildcard rule as a glob, and false when it does neither.
C14_IgnoreRules == ignored = RuleMatches(candidate)

\* C15: a change notification whose file name is empty or matches an ignore
\* rule changes nothing but the record of the last notification: no timer is
\* armed, cleared or replaced, no run starts, and the flag and the position
\* of rebuild() stay as they are.
C15_IgnoredEventHasNoEffect ==
  [][ lastFile' # lastFile /\ (lastFile' = << >> \/ RuleMatches(lastFile')) =>
        /\ rebuildTimer' = rebuildTimer /\ armed' = armed
        /\ fired' = fired /\ superseded' = superseded
        /\ events' = events /\ bursts' = bursts
        /\ isRebuilding' = isRebuilding /\ rpc' = rpc
        /\ runsStarted' = runsStarted /\ active' = active
        /\ runKind' = runKind /\ steps' = steps
        /\ pc' = pc /\ published' = published ]_vars

\* an ignored notification arrived while timer 1 was armed
C15_Witness ==
  /\ lastFile = << "i", ".", "s", "p", "e", "c", ".", "t", "s" >>
  /\ armed = { 1 } /\ rebuildTimer = 1 /\ events = 1 /\ runsStarted = 0

\* the last change-triggered run has ended
RunEnded == runKind = "rebuild" /\ rpc = "idle"

\* C16 (as stated): an accepted change event (its timer is armed, n runs
\* were started so far) is eventually followed by a later run that executed
\* build, unpublish and publish.
C16_NoAcceptedChangeLost ==
  \A n \in 0..MaxEvents :
     (armed # {} /\ runsStarted = n)
        ~> (runsStarted > n /\ RunEnded /\ Len(steps) = 3)

\* C16 (amended): an accepted change event is eventually followed by a later
\* run, which starts with build and, when build succeeded, executed unpublish
\* and publish in this order; a failed build ends that run after build.
C16_NoAcceptedChangeLostAmended ==
  \A n \in 0..MaxEvents :
     (armed # {} /\ runsStarted = n)
        ~> (/\ runsStarted > n /\ RunEnded
            /\ Len(steps) >= 1 /\ steps[1][1] = "build"
            /\ (steps[1][2] = "ok" =>
                  /\ Len(steps) = 3
                  /\ steps[2][1] = "clean" /\ steps[3][1] = "publish")
            /\ (steps[1][2] # "ok" => Len(steps) = 1))

\* event 1 was superseded by event 2, whose timer started the run that ended
C16_Witness ==
  /\ events = 2 /\ superseded = { 1 } /\ fired = { 2 } /\ runsStarted = 1
  /\ RunEnded /\ Len(steps) = 3

\* C17: every start of the registry ends: it resolves as ready, or it fails.
C17_StartTerminates ==
  (registry = "starting") ~> (registry \in { "ready", "failed" })

\* C18: at most maxAttempts pings are sent during a start.  A ping answered
\* with another status or a connection error is followed by the next sleep
\* (and ping) exactly when fewer than maxAttempts pings were sent, and by the
\* failure of the start otherwise; a ping answered with 200 makes the
\* registry ready and no ping is sent afterwards.
C18_PingBudget ==
  /\ [](pings <= maxAttempts)
  /\ [](pc = "sleep" => pings < maxAttempts /\ registry = "starting")
  /\ [](registry = "ready" => pc \notin { "sleep", "ping" })
  /\ [](exitCause = "health" => pings = maxAttempts /\ lastAnswer # "200")
  /\ [][ pings' > pings =>
          /\ registry = "starting" /\ registry' = "starting"
          /\ pings' = pings + 1 /\ pings < maxAttempts ]_vars
  /\ [][ pc = "ping" /\ lastAnswer' \in { "other", "error" } =>
          IF pings < maxAttempts
          THEN pc' = "sleep" /\ registry' = "starting"
          ELSE pc' = "exited" /\ exitCause' = "health" /\ registry' = "failed" ]_vars
  /\ [][ pc = "ping" /\ lastAnswer' = "200" =>
          registry' = "ready" /\ pc' = "build" ]_vars

\* the last ping of the budget is in flight after maxAttempts - 1 misses
C18_Witness ==
  /\ pc = "ping" /\ pings = maxAttempts /\ registry = "starting"
  /\ script = "legacy"

\* C19: a spawn error with another message than address-in-use ends the
\* process with a failure code, whatever the health check was doing; no step
\* of a run was or is executed, no watcher was or is installed, and nothing
\* happens after it.
C19_OtherSpawnErrorIsFatal ==
  /\ [](spawnError = "other" =>
          /\ pc = "exited" /\ exitCode = 1 /\ exitCause = "spawn"
          /\ registry = "failed" /\ lastAnswer # "200"
          /\ runKind = "none" /\ steps = << >> /\ active = 0
          /\ watchers = {} /\ installed = {})
  /\ [][ spawnError = "other" => UNCHANGED vars ]_vars

\* the error arrived while the second ping was in flight
C19_Witness ==
  /\ spawnError = "other" /\ exitCode = 1 /\ script = "watch"
  /\ pings = 2 /\ lastAnswer = "none"

\* C20: whenever the process has ended with a failure code, the registry
\* child process it spawned was signalled to terminate before.
C20_ChildSignalledOnFatalExit ==
  pc = "exited" /\ exitCode = 1 /\ verdaccioProcess # "undefined"
     => verdaccioProcess = "killed"

\* C21: at most one timer is armed and not yet fired, and it is the one
\* whose id rebuildTimer holds; a debounce call leaves armed exactly the
\* timer it creates, having cleared the one that was armed.
C21_OnePendingTimer ==
  /\ [](Cardinality(armed) <= 1)
  /\ [](armed \subseteq { rebuildTimer })
  /\ [][ events' # events =>
          /\ rebuildTimer' = events' /\ armed' = { events' }
          /\ armed \cap armed' = {} /\ armed \cap fired' = {} ]_vars

\* the second event cleared timer 1 and armed timer 2
C21_Witness ==
  /\ armed = { 2 } /\ rebuildTimer = 2 /\ superseded = { 1 }
  /\ fired = {} /\ runsStarted = 0

\* what is left of the walk: the directories not yet in the Set, counted
\* twice, and the suspended watchDirectory calls
WalkMeasure == 2 * Cardinality(AllDirs \ watchers) + Len(walkStack)

\* C22: a watch is registered only for a path that is not in the Set and is
\* put into it, so no path gets a second watcher; the link c/up, which gives
\* a second route to every directory and closes a cycle, is not followed;
\* and the walk ends: every step of it makes what is left of it smaller, and
\* a suspended walk has a call whose readdir settles.
C22_OneWatcherPerPath ==
  /\ [](installed \subseteq watchers /\ watchers \subseteq AllDirs)
  /\ [](pc = "walk" => walkStack # << >>)
  /\ [](pc = "blocked" => walkStack = << >>)
  /\ [][ \A d \in AllDirs :
            d \in installed' /\ d \notin installed =>
               d \notin watchers /\ d \in watchers' ]_vars
  /\ [][ walkStack' # walkStack /\ walkStack # << >> =>
            WalkMeasure' < WalkMeasure ]_vars

\* the walk has ended with a watcher on libs, a, a/b, c and d; c was listed,
\* with its link
C22_Witness ==
  /\ pc = "blocked" /\ script = "watch" /\ exists = AllDirs
  /\ installed = AllDirs \ { join(Root, Str_dist) }
  /\ watchers = installed

\* the directories reached from dir through sub-directories whose names
\* match no ignore rule
RECURSIVE ReachableFrom(_)
ReachableFrom(dir) ==
  { dir } \cup
  UNION { ReachableFrom(join(dir, Children(dir)[i])) :
            i \in { k \in 1..Len(Children(dir)) :
                      /\ isDirectory(Children(dir)[k])
                      /\ ~RuleMatches(Children(dir)[k]) } }

\* C23: when the walk has ended on a tree that did not change, the watched
\* set is the root together with every directory reached from it through
\* sub-directories whose names match no ignore rule, whatever the path of
\* the root is.
C23_WatchedSetIsReachableSet ==
  pc = "blocked" /\ script = "watch" /\ exists = AllDirs
     => installed = ReachableFrom(Root) /\ watchers = installed

\* C24: when a directory disappeared during the walk, the walk still ends
\* and boot completes, and only the branch that disappeared is left out:
\* every directory that is still there and is reached from the watched root
\* through names that match no rule has its watcher.
C24_OnlyVanishedBranchSkipped ==
  pc = "blocked" /\ script = "watch" /\ Root \in installed
     => \A d \in ReachableFrom(Root) : d \in exists => d \in installed

\* C25: once the initial walk has completed the watched set never changes:
\* no callback adds a watcher or removes one, the sub-directory created after
\* the start is never watched, and so no change inside it is ever delivered.
C25_WatchedSetFrozen ==
  /\ [][ pc = "blocked" => installed' = installed /\ watchers' = watchers ]_vars
  /\ [](join(Root, Dir_n) \notin installed)
  /\ [](\A f \in FileNames : ~ ENABLED WatchEvent(join(Root, Dir_n), f))

C25_Witness ==
  /\ pc = "blocked" /\ script = "watch"
  /\ lastFile = Dir_n /\ fired # {} /\ runsStarted >= 2 /\ rpc = "idle"
  /\ installed = AllDirs \ { join(Root, Str_dist) }

\* C26: a command that exceeds its timeout is treated as a command that
\* fails: for each step both outcomes end the call in the same way and leave
\* the registry contents alone, and in watch.ts the state after the step is
\* the same for both: a build ends the run (the daemon exits with code 1 in
\* the boot run, stays up in a rebuild), unpublish is followed by publish,
\* and publish ends the run with the daemon still running.
C26_TimeoutIsFailure ==
  /\ [](\A s \in Steps, reg \in { "none", "fresh", "stale" } :
          /\ StepResult(s, "timeout") = StepResult(s, "fail")
          /\ Registry(s, "timeout", reg) = Registry(s, "fail", reg))
  /\ [][ \A o \in { "fail", "timeout" }, s \in Steps :
           script = "watch" /\ steps' = Append(steps, << s, o >>) =>
             /\ published' = published
             /\ s = "build" /\ pc = s => pc' = "exited" /\ exitCode' = 1
             /\ s = "build" /\ rpc = s =>
                   rpc' = "idle" /\ ~ isRebuilding' /\ pc' = pc
             /\ s = "clean" /\ pc = s => pc' = "publish"
             /\ s = "clean" /\ rpc = s => rpc' = "publish" /\ pc' = pc
             /\ s = "publish" /\ pc = s => pc' = "setup"
             /\ s = "publish" /\ rpc = s =>
                   rpc' = "idle" /\ ~ isRebuilding' /\ pc' = pc ]_vars

C26_Witness ==
  /\ script = "watch" /\ runKind = "rebuild" /\ Alive /\ rpc = "idle"
  /\ steps = << << "build", "ok" >>, << "clean", "timeout" >>,
                << "publish", "timeout" >> >>

\* the moves of the registry supervisor named by the specification
SupervisorMoves ==
  { << "stopped", "starting" >>, << "starting", "ready" >>,
    << "ready", "stopped" >>, << "starting", "failed" >> }

\* what every step keeps: the registry is started only by the first step of
\* the daemon; the child process is spawned once and killed at most once;
\* after the exit nothing changes; a stopped registry has its child process
\* killed; a change event, a timer or a pipeline step that does not end the
\* daemon leaves the registry state and the process handle alone
SupervisorFrame ==
  /\ [][ /\ registry = "stopped" /\ registry' = "starting" => pc = "init"
         /\ verdaccioProcess' # verdaccioProcess =>
               << verdaccioProcess, verdaccioProcess' >> \in
                  { << "undefined", "running" >>, << "running", "killed" >> }
         /\ pc = "exited" =>
               registry' = registry /\ verdaccioProcess' = verdaccioProcess
         /\ \/ lastFile' # lastFile \/ events' # events
            \/ fired' # fired \/ steps' # steps
            => \/ pc' = "exited" /\ pc # "exited"
               \/ registry' = registry /\ verdaccioProcess' = verdaccioProcess
       ]_vars
  /\ [](pc = "exited" /\ registry = "stopped" => verdaccioProcess = "killed")

\* C27: the registry supervisor only moves along stopped -> starting ->
\* ready -> stopped or starting -> failed; the process is spawned at most
\* once, failed and the final stopped are terminal, and no change event or
\* pipeline run changes the registry state or the process handle.
C27_SupervisorMoves ==
  /\ [][ registry' # registry => << registry, registry' >> \in SupervisorMoves ]_vars
  /\ SupervisorFrame

\* C27 (amended): as above, with one more move: an interrupt signal during
\* the health check takes the supervisor from starting to stopped.
C27_SupervisorMovesAmended ==
  /\ [][ registry' # registry =>
           \/ << registry, registry' >> \in SupervisorMoves
           \/ /\ << registry, registry' >> = << "starting", "stopped" >>
              /\ exitCause' = "sigint" /\ pc \in { "sleep", "ping" } ]_vars
  /\ SupervisorFrame

C27_Witness ==
  /\ pc = "exited" /\ exitCause = "sigint" /\ registry = "stopped"
  /\ verdaccioProcess = "killed" /\ attempts = 2 /\ lastAnswer # "200"
  /\ steps = << >>

\* C28: a pipeline run executes to its end inside one callback, so the flag
\* isRebuilding is false whenever a callback can start (a watch event, a
\* timer firing, the signal handler); the early return of rebuild() is never
\* taken and no fired timer is dropped by the guard of the debounced action:
\* every timer that fires starts a run.
C28_FlagFalseAtCallbackStart ==
  /\ [](EventLoopFree => ~ isRebuilding)
  /\ [](runsStarted = Cardinality(fired))
  /\ [][ \/ fired' # fired \/ events' # events \/ lastFile' # lastFile
         \/ exitCause' = "sigint" /\ exitCause # "sigint"
         => ~ isRebuilding ]_vars
  /\ [][ fired' # fired =>
           /\ isRebuilding' /\ rpc' = FirstStep
           /\ runsStarted' = runsStarted + 1 ]_vars

C28_Witness ==
  /\ fired = { 1, 2 } /\ runsStarted = 2
  /\ isRebuilding /\ rpc = "build" /\ Alive

\* C29: no spurious rebuild: a pipeline run starts only as the boot run,
\* once, after the health check, or when a debounce timer fires; a timer is
\* armed only by a change event whose file name is given and matches no
\* ignore rule; so the runs started by timers are at most the accepted
\* events, and all runs at most one more.
C29_NoSpuriousRebuild ==
  /\ [](runsStarted <= events /\ fired \subseteq 1..events
          /\ Cardinality(fired) = runsStarted)
  /\ [][ active' > active =>
           \/ fired' # fired /\ runsStarted' = runsStarted + 1
           \/ /\ pc \in { "ping", "init", "sleep" } /\ pc' = "build"
              /\ runsStarted' = runsStarted /\ runsStarted = 0 ]_vars
  /\ [][ pc' \in { "init", "sleep", "ping" } => pc \in { "init", "sleep", "ping" } ]_vars
  /\ [][ runsStarted' # runsStarted => fired' # fired ]_vars
  /\ [][ armed' \ armed # {} =>
           /\ events' = events + 1 /\ armed' = { events' }
           /\ lastFile' # << >> /\ ~ RuleMatches(lastFile') ]_vars

C29_Witness ==
  /\ events = 3 /\ runsStarted = 1 /\ fired = { 2 } /\ superseded = { 1 }
  /\ armed = { 3 } /\ rpc = "idle" /\ pc = "blocked"

\* C30: once the interrupt handler or the fatal-error handler has run,
\* nothing happens any more: no pipeline step starts, a timer still pending
\* at the exit never fires, and no watcher callback is processed.
C30_NothingAfterExit ==
  /\ [][ pc = "exited" => UNCHANGED vars ]_vars
  /\ [](pc = "exited" =>
          /\ \A t \in 1..MaxEvents : ~ ENABLED TimerFire(t)
          /\ \A d \in EventDirs, f \in FileNames : ~ ENABLED WatchEvent(d, f)
          /\ \A o \in Outcomes("publish") : ~ ENABLED RebuildStep(o) /\ ~ ENABLED BootStep(o))

C30_Witness ==
  /\ pc = "exited" /\ exitCause = "sigint" /\ exitCode = 0
  /\ armed = { 2 } /\ fired = { 1 } /\ runsStarted = 1 /\ rpc = "idle"

\* C31: a pipeline run leaves the debounce timer untouched: no step of the
\* boot run or of a rebuild, and no end of a run with its state reset,
\* changes the timer handle or the pending timer; the timer callback that
\* starts a run only takes its own timer off the pending ones; and the
\* handle is written only by debounce(), in the callback of an accepted
\* change event, to the id of the timer it arms.
C31_RunLeavesTimerAlone ==
  /\ [][ Len(steps') = Len(steps) + 1 =>
           rebuildTimer' = rebuildTimer /\ armed' = armed ]_vars
  /\ [][ isRebuilding' # isRebuilding =>
           rebuildTimer' = rebuildTimer /\ armed' = armed \ fired' ]_vars
  /\ [][ rebuildTimer' # rebuildTimer =>
           /\ events' = events + 1 /\ rebuildTimer' = events'
           /\ armed' = { events' } /\ steps' = steps
           /\ rpc = "idle" /\ rpc' = "idle" /\ ~ isRebuilding ]_vars

C31_Witness ==
  /\ script = "watch" /\ runKind = "rebuild" /\ Len(steps) = 3
  /\ rpc = "idle" /\ ~ isRebuilding /\ Alive
  /\ fired = { 1 } /\ rebuildTimer = 1 /\ armed = {} /\ events = 1

====
